---- MODULE Spec2Model ----
(***************************************************************************)
(* TealTurtle: the gesture / speech dialogue loop of the PoseDetection     *)
(* components and of the useSpeechRecognition, useOpenAI and               *)
(* useSpeechSynthesis hooks, as a state machine of the browser event loop. *)
(*                                                                         *)
(* Three components of the repository share the loop and differ in        *)
(* details; `variant` says which one is mounted:                           *)
(*   "tsx"  src/components/PoseDetection.tsx  (gesture loop only, its own  *)
(*          fetchAIResponse and speakText)                                 *)
(*   "jsx"  src/components/PoseDetection.jsx, second component (gesture    *)
(*          loop and listenForSpeech, the hooks' fetchAIResponse/speakText)*)
(*   "hook" useSpeechRecognition (speech only, the hooks)                  *)
(*                                                                         *)
(* ClassifierSpec is the gesture classifiers on their own: isHandRaised    *)
(* and isHeadTilted called on a pose, and the HandDetection component of   *)
(* PoseDetection.jsx, whose gotHands calls isFistClosed.                   *)
(*                                                                         *)
(* Text is a sequence of characters; the program's string literals are    *)
(* one-character texts whose character is the literal.                     *)
(***************************************************************************)
EXTENDS Integers, Sequences, FiniteSets, TLC

\* ------------------------------------------------------------------ bounds
\* recognition.onresult handlers that may be suspended at the same time
MaxSpeech == 1
\* pending setTimeout callbacks of each kind
MaxTimers == 1

\* hands whose count of fingertips or of knuckles is off the expected five
\* by at most this
MaxMiscount == 1

\* voices window.speechSynthesis.getVoices() may list
MaxVoices == 2

\* ------------------------------------------------------------- constants
\* Math.abs(leftEar.y - rightEar.y) > 20
HeadTiltThreshold == 20
\* kp.score < 0.3, scores in tenths
ScoreThreshold == 3
\* window.fingerTips.length === 5 && window.knuckles.length === 5
FingerCount == 5

\* -------------------------------------------------------------------- text
Chars == {"a", "A", " "}

HandPrompt == <<"The child raised their hand. How should I respond?">>
HeadPrompt == <<"The child tilted their head. Do they feel dizzy?">>
NoResponse == <<"No response received.">>
Fallback == <<"I couldn't process your request.">>

\* what SpeechRecognition may deliver as event.results[last][0].transcript
RawTranscripts == {<<>>, <<" ">>, <<"a">>, <<"A">>, <<" ", "A">>}

\* String.prototype.toLowerCase, character by character
LowerChar(c) ==
  CASE c = "A" -> "a"
    [] c = "The child raised their hand. How should I respond?"
         -> "the child raised their hand. how should i respond?"
    [] c = "The child tilted their head. Do they feel dizzy?"
         -> "the child tilted their head. do they feel dizzy?"
    [] c = "No response received." -> "no response received."
    [] c = "I couldn't process your request." -> "i couldn't process your request."
    [] OTHER -> c

toLowerCase(s) == [i \in 1..Len(s) |-> LowerChar(s[i])]

\* String.prototype.trim: leading and trailing white space removed
RECURSIVE trimStart(_)
trimStart(s) == IF s # <<>> /\ Head(s) = " " THEN trimStart(Tail(s)) ELSE s

RECURSIVE trimEnd(_)
trimEnd(s) ==
  IF s # <<>> /\ s[Len(s)] = " " THEN trimEnd(SubSeq(s, 1, Len(s) - 1)) ELSE s

\* the text as it is, nothing removed
untrimmed(s) == s

trim(s) == trimEnd(trimStart(s))

\* ------------------------------------------------------------------ voices
\* language tags, character by character
LangEn == <<"e", "n">>
LangEs == <<"e", "s">>
LangFr == <<"f", "r">>
LangEnUS == <<"e", "n", "-", "U", "S">>
LangEnGB == <<"e", "n", "-", "G", "B">>
LangEsES == <<"e", "s", "-", "E", "S">>

\* voice.lang of the voices a browser may offer
VoiceLangs == {LangEnUS, LangEnGB, LangEsES}

RECURSIVE ListsUpTo(_, _)
ListsUpTo(S, n) ==
  IF n = 0 THEN {<<>>}
  ELSE ListsUpTo(S, n - 1) \cup {Append(l, x) : l \in ListsUpTo(S, n - 1), x \in S}

\* what getVoices() may return; empty until the voices are loaded
VoiceLists == ListsUpTo(VoiceLangs, MaxVoices)

\* the language argument of speakText: left out, or a string
Omitted == [given |-> FALSE, value |-> <<>>]
LanguageArgs ==
  {Omitted} \cup [given : {TRUE}, value : {LangEn, LangEs, LangFr, LangEnGB}]

\* language: string = "en"
languageOrDefault(arg) == IF arg.given THEN arg.value ELSE LangEn

\* String.prototype.startsWith
startsWith(str, prefix) ==
  Len(prefix) <= Len(str) /\ SubSeq(str, 1, Len(prefix)) = prefix

\* voices.find(voice => voice.lang.startsWith(language)) as a position in the
\* list from position k on, 0 for undefined
RECURSIVE findVoice(_, _, _)
findVoice(list, language, k) ==
  IF k > Len(list) THEN 0
  ELSE IF startsWith(list[k], language) THEN k
  ELSE findVoice(list, language, k + 1)

\* the first voice, whatever the language
selectedVoiceFirst(list, language) == IF list = <<>> THEN 0 ELSE 1

\* const selectedVoice = voices.find(...) || voices[0]
selectedVoice(list, language) ==
  IF findVoice(list, language, 1) # 0 THEN findVoice(list, language, 1)
  ELSE IF list = <<>> THEN 0 ELSE 1

\* ------------------------------------------------------------------- poses
\* a keypoint that pose.keypoints.find(...) does not find
Absent == -1

\* poses net.estimateSinglePose may return: the y of each part (or Absent)
\* and the score, in tenths, its keypoints carry
Poses ==
  [leftWrist : {Absent, 100}, rightWrist : {100, 300}, nose : {200},
   leftEar : {Absent, 100}, rightEar : {120, 121}, score : {2, 5}]

Abs(n) == IF n < 0 THEN -n ELSE n

isHandRaised(pose) ==
  IF pose.leftWrist = Absent \/ pose.rightWrist = Absent \/ pose.nose = Absent
  THEN FALSE
  ELSE pose.leftWrist < pose.nose \/ pose.rightWrist < pose.nose

\* the same rule with the threshold itself counted as a tilt
isHeadTiltedAtThreshold(pose) ==
  IF pose.leftEar = Absent \/ pose.rightEar = Absent
  THEN FALSE
  ELSE Abs(pose.leftEar - pose.rightEar) >= HeadTiltThreshold

isHeadTilted(pose) ==
  IF pose.leftEar = Absent \/ pose.rightEar = Absent
  THEN FALSE
  ELSE Abs(pose.leftEar - pose.rightEar) > HeadTiltThreshold

\* pose.keypoints.every((kp) => kp.score < 0.3)
NoClearPose(pose) == pose.score < ScoreThreshold

\* the same prompts with the head looked at first
GesturePromptHeadFirst(pose) ==
  IF isHeadTilted(pose) THEN HeadPrompt
  ELSE IF isHandRaised(pose) THEN HandPrompt
  ELSE <<>>

\* the prompt detectPose derives from the pose; <<>> is the empty string
GesturePrompt(pose) ==
  IF isHandRaised(pose) THEN HandPrompt
  ELSE IF isHeadTilted(pose) THEN HeadPrompt
  ELSE <<>>

\* poses the classifiers are called with: every combination of a part
\* missing, above, level with and below the part it is compared to
ClassifierPoses ==
  [leftWrist : {Absent, 100, 200}, rightWrist : {Absent, 200, 300},
   nose : {Absent, 200}, leftEar : {Absent, 100, 141},
   rightEar : {Absent, 120, 121}, score : {5}]

\* ------------------------------------------------------------------- hands
\* A keypoint name is the sequence of the words it is made of
\* ("index_finger_tip" is <<"index_finger", "tip">>); a hand is the list of
\* its keypoints, or is not readable (hand.keypoints throws).
Fingers == <<"thumb", "index_finger", "middle_finger", "ring_finger", "pinky_finger">>

\* String.prototype.includes, word by word
includes(name, word) == \E i \in 1..Len(name) : name[i] = word

FingerName(i, word) == <<Fingers[((i - 1) % Len(Fingers)) + 1], word>>

\* a hand with nT fingertips around yT and nM knuckles around 100
HandOf(nT, nM, yT) ==
  [readable |-> TRUE,
   keypoints |->
     <<[name |-> <<"wrist">>, y |-> 150]>>
     \o [i \in 1..nM |-> [name |-> FingerName(i, "mcp"), y |-> 100 + i]]
     \o [i \in 1..nT |-> [name |-> FingerName(i, "tip"), y |-> yT + i]]]

UnreadableHand == [readable |-> FALSE, keypoints |-> <<>>]

Miscounts == (FingerCount - MaxMiscount)..(FingerCount + MaxMiscount)

\* the hands handPose may report
Hands ==
  {HandOf(nT, nM, yT) : nT \in Miscounts, nM \in Miscounts, yT \in {90, 100, 110}}
  \cup {UnreadableHand}

\* a second hand in view: an open one and a closed fist
OtherHands == {HandOf(FingerCount, FingerCount, 90), HandOf(FingerCount, FingerCount, 110)}

\* the `results` handPose passes to gotHands: no hand, one hand, or two
HandResults ==
  {<<>>} \cup {<<h>> : h \in Hands} \cup {<<h, o>> : h \in Hands, o \in OtherHands}

\* hand.keypoints.filter(point => point.name.includes(word))
filterByName(hand, word) ==
  SelectSeq(hand.keypoints, LAMBDA point : includes(point.name, word))

\* points.reduce((sum, p) => sum + p.y, 0)
RECURSIVE sumY(_)
sumY(points) == IF points = <<>> THEN 0 ELSE Head(points).y + sumY(Tail(points))

\* avgFingerTipsY > avgKnucklesY, the two quotients compared exactly
avgGreater(tips, knucks) == sumY(tips) * Len(knucks) > sumY(knucks) * Len(tips)

\* the same check with the count of the knuckles not looked at
isFistClosedTipsOnly(hand) ==
  IF ~hand.readable THEN FALSE
  ELSE LET tips == filterByName(hand, "tip")
           knucks == filterByName(hand, "mcp")
       IN Len(tips) = FingerCount /\ knucks # <<>> /\ avgGreater(tips, knucks)

\* isFistClosed(hand).result
isFistClosed(hand) ==
  IF ~hand.readable THEN FALSE
  ELSE LET tips == filterByName(hand, "tip")
           knucks == filterByName(hand, "mcp")
       IN /\ Len(tips) = FingerCount
          /\ Len(knucks) = FingerCount
          /\ avgGreater(tips, knucks)

\* ---------------------------------------------------------- chat endpoint
\* contents data.choices[0].message.content may hold
Contents == {<<>>, <<"A">>}

\* what the chat-completions request may come back with: a transport failure
\* (status 0), or a status with a body that is not JSON, JSON without
\* `choices`, JSON with an empty `choices`, or a completion
Responses ==
  {[kind |-> "networkError", status |-> 0, content |-> <<>>]}
  \cup [kind : {"notJson", "noChoices", "emptyChoices"}, status : {200, 500},
        content : {<<>>}]
  \cup [kind : {"content"}, status : {200, 500}, content : Contents]

\* response.ok
ok(r) == r.status \in 200..299

Resolved(text, err) == [outcome |-> "resolved", text |-> text, error |-> err]
Rejected == [outcome |-> "rejected", text |-> <<>>, error |-> "null"]

\* useOpenAI.fetchAIResponse: every failure is caught and becomes the fallback
hookFetchAIResponse(r) ==
  IF r.kind \in {"networkError", "notJson"} THEN Resolved(Fallback, "message")
  ELSE IF ~ok(r) THEN Resolved(Fallback, "message")
  ELSE IF r.kind = "noChoices" THEN Resolved(Fallback, "message")
  ELSE IF r.kind = "emptyChoices" \/ r.content = <<>> THEN Resolved(NoResponse, "null")
  ELSE Resolved(r.content, "null")

\* fetchAIResponse of PoseDetection.tsx: no catch and no look at response.ok
tsxFetchAIResponse(r) ==
  IF r.kind \in {"networkError", "notJson", "noChoices", "emptyChoices"} THEN Rejected
  ELSE IF r.content = <<>> THEN Resolved(NoResponse, "null")
  ELSE Resolved(r.content, "null")

fetchAIResponse(v, r) ==
  IF v = "tsx" THEN tsxFetchAIResponse(r) ELSE hookFetchAIResponse(r)

\* ------------------------------------------------------------------- state
VARIABLES
  variant,         \* the mounted component
  gpc,             \* where the gesture loop (runPoseDetection/detectPose) is
  userInput,       \* detectPose's userInput, until its chat call settles
  isAiResponding,  \* useState(false): the busy flag
  aiResponse,      \* useState(""): the text last given to setAiResponse
  lastAiResponse,  \* let lastAiResponse = ""
  isLoading,       \* useOpenAI's useState(false)
  error,           \* useOpenAI's useState(null)
  recog,           \* the SpeechRecognition object: none, listening, stopped
  sx,              \* the suspended recognition.onresult handlers: where each
                   \* is, its spokenText and language, and (for the record)
                   \* the transcript as delivered and whether it repeated
                   \* the reply spoken last
  synth,           \* window.speechSynthesis: the utterances queued, head first
  speaking,        \* the head utterance is being spoken
  resumeTimers,    \* pending setTimeout(() => recognition.start(), 4000)
  restartTimers,   \* pending setTimeout(() => recognition.start(), 5000)
  lastFetch,       \* status, outcome and error message (or null) of the
                   \* fetchAIResponse call that the step just taken settled;
                   \* NoFetch after any other step
  speechSupported, \* window.SpeechRecognition || window.webkitSpeechRecognition
                   \* is there
  frames,          \* requestAnimationFrame callbacks requested and not yet run
  net,             \* runPoseDetection's net: pending, null or the loaded net
  consoleErrors,   \* the console.error diagnostics of runPoseDetection
  classified,      \* what isHandRaised and isHeadTilted say of the pose the
                   \* step just taken classified, or the early return the
                   \* tick took before it classified; NoClassification otherwise
  inputPose,       \* the pose handed to isHandRaised / isHeadTilted
  handRaised,      \* the value isHandRaised(inputPose) returned, once called
  headTilted,      \* the value isHeadTilted(inputPose) returned, once called
  hands,           \* HandDetection's `let hands`
  fistClosed,      \* HandDetection's useState(false)
  handGrabs,       \* the arguments of the onHandGrab calls that the last
                   \* gotHands callback made, in order
  fingerTips,      \* window.fingerTips
  knuckles,        \* window.knuckles
  voices,          \* window.speechSynthesis.getVoices(): the lang of each voice
  languageArg,     \* the language argument of a speakText call, if it has one
  utteranceVoice   \* utterance.voice once speakText has set it: the position
                   \* of the voice in the list, 0 for undefined

vars ==
  <<variant, gpc, userInput, isAiResponding, aiResponse, lastAiResponse, isLoading,
    error, recog, sx, synth, speaking, resumeTimers, restartTimers,
    lastFetch, frames, speechSupported, net, consoleErrors, classified, inputPose,
    handRaised, headTilted,
    hands, fistClosed, handGrabs, fingerTips, knuckles, voices, languageArg,
    utteranceVoice>>

\* the voice list and one call of speakText on it
voiceVars == <<voices, languageArg, utteranceVoice>>

\* the state of the gesture classifiers and of the HandDetection component
classifierVars ==
  <<inputPose, handRaised, headTilted, hands, fistClosed, handGrabs, fingerTips,
    knuckles>>

\* what no step of the dialogue changes once runPoseDetection has its net
setupVars ==
  <<classifierVars, voiceVars, speechSupported, net, consoleErrors, variant>>

Variants == {"tsx", "jsx", "hook"}
Slots == 1..MaxSpeech
\* owner of an utterance: 0 is the gesture loop, i > 0 the handler in slot i
Gesture == 0
IdleSlot == [pc |-> "idle", raw |-> <<>>, text |-> <<>>, lang |-> "en", echo |-> FALSE]

NoFetch == [status |-> 0, outcome |-> "none", error |-> "null"]
NoClassification ==
  [handRaised |-> FALSE, headTilted |-> FALSE, classified |-> FALSE, returnedAt |-> "none"]
\* no pose: the component mounted is one without a pose estimator
NoPose == [leftWrist |-> Absent, rightWrist |-> Absent, nose |-> Absent,
           leftEar |-> Absent, rightEar |-> Absent, score |-> 0]
PoseNetFailed == "PoseNet failed to load."

hasGestureLoop(v) == v \in {"tsx", "jsx"}
hasSpeech(v) == v \in {"jsx", "hook"}

Init ==
  /\ variant \in Variants
  /\ gpc = "unmounted"
  /\ userInput = <<>>
  /\ isAiResponding = FALSE
  /\ aiResponse = <<>>
  /\ lastAiResponse = <<>>
  /\ isLoading = FALSE
  /\ error = "null"
  /\ recog = "none"
  /\ sx = [i \in Slots |-> IdleSlot]
  /\ synth = <<>>
  /\ speaking = FALSE
  /\ resumeTimers = 0
  /\ restartTimers = 0
  /\ lastFetch = NoFetch
  /\ frames = 0
  /\ speechSupported \in BOOLEAN
  /\ net = "pending"
  /\ consoleErrors = {}
  /\ classified = NoClassification
  /\ inputPose = NoPose
  /\ handRaised = {}
  /\ headTilted = {}
  /\ hands = <<>>
  /\ fistClosed = FALSE
  /\ handGrabs = <<>>
  /\ fingerTips = <<>>
  /\ knuckles = <<>>
  /\ voices = <<>>
  /\ languageArg = Omitted
  /\ utteranceVoice = {}

\* The isAiResponding that detectPose and recognition.onresult read.  Both are
\* created in a useEffect(..., []) of the first render, so they read that
\* render's constant, whatever setIsAiResponding has stored since.
closureIsAiResponding == FALSE

\* ------------------------------------------------------------ speech output
\* the same utterance with the promise resolved as soon as speaking starts
speakTextResolvesEarly(text, language, owner) ==
  [text |-> text, lang |-> language, owner |-> owner,
   onstart |-> "resolve", onend |-> "none"]

\* speakText(text, language): the utterance handed to speechSynthesis.speak.
\* Its onend handler resolves the promise the caller awaits; it has no
\* onstart and no onerror handler.
speakText(text, language, owner) ==
  [text |-> text, lang |-> language, owner |-> owner,
   onstart |-> "none", onend |-> "resolve"]

\* PoseDetection.tsx's speakText(text) passes no language
voiceHint(v, language) == IF v = "tsx" THEN "none" ELSE language

\* ------------------------------------------------------------- gesture loop
\* two callbacks requested where the loop requests one
requestAnimationFrameTwice(pending) == pending + 2

\* requestAnimationFrame(() => detectPose(net)): one more callback pending
requestAnimationFrame(pending) == pending + 1

\* detectPose's try has a finally { setIsAiResponding(false) } in
\* PoseDetection.tsx only
hasFinally(v) == v = "tsx"

\* detectPose without the setIsAiResponding(true) of its entry
DetectPoseEnterNoLock(videoReady) ==
  IF ~videoReady \/ closureIsAiResponding
  THEN /\ gpc' = "halted"
       /\ UNCHANGED isAiResponding
  ELSE /\ UNCHANGED isAiResponding
       /\ gpc' = "awaitPose"

\* detectPose up to its first await
DetectPoseEnter(videoReady) ==
  IF ~videoReady \/ closureIsAiResponding
  THEN /\ gpc' = "halted"
       /\ UNCHANGED isAiResponding
  ELSE /\ isAiResponding' = TRUE
       /\ gpc' = "awaitPose"

\* the same effect with the recognizer created whatever the browser has
MountListensAnyway ==
  /\ gpc = "unmounted"
  /\ gpc' = IF hasGestureLoop(variant) THEN "setupCamera" ELSE "none"
  /\ IF hasSpeech(variant)
     THEN recog' = "listening"
     ELSE UNCHANGED recog
  /\ lastFetch' = NoFetch
  /\ classified' = NoClassification
  /\ UNCHANGED frames
  /\ UNCHANGED <<setupVars,
                 userInput, isAiResponding, aiResponse, lastAiResponse,
                 isLoading, error, sx, synth, speaking, resumeTimers, restartTimers>>

\* the same await with detectPose started whatever loadPoseNet returned
PoseNetSettledNoCheck(loaded, videoReady) ==
  /\ gpc = "loadPoseNet"
  /\ net' = IF loaded THEN "net" ELSE "null"
  /\ DetectPoseEnter(videoReady)
  /\ lastFetch' = NoFetch
  /\ classified' = NoClassification
  /\ UNCHANGED frames
  /\ UNCHANGED <<classifierVars, voiceVars, speechSupported, consoleErrors, variant,
                 userInput, aiResponse, lastAiResponse, isLoading, error,
                 recog, sx, synth, speaking, resumeTimers, restartTimers>>

\* the effect of the first render: runPoseDetection() and, where the component
\* listens, the creation and start of the recognizer when the browser has one
Mount ==
  /\ gpc = "unmounted"
  /\ gpc' = IF hasGestureLoop(variant) THEN "setupCamera" ELSE "none"
  /\ IF hasSpeech(variant)
     THEN recog' = IF speechSupported THEN "listening" ELSE "none"
     ELSE UNCHANGED recog
  /\ lastFetch' = NoFetch
  /\ classified' = NoClassification
  /\ UNCHANGED frames
  /\ UNCHANGED <<setupVars,
                 userInput, isAiResponding, aiResponse, lastAiResponse,
                 isLoading, error, sx, synth, speaking, resumeTimers, restartTimers>>

\* runPoseDetection after await setupCamera(): getUserMedia may reject
CameraSettled(granted) ==
  /\ gpc = "setupCamera"
  /\ gpc' = IF granted THEN "loadPoseNet" ELSE "halted"
  /\ lastFetch' = NoFetch
  /\ classified' = NoClassification
  /\ UNCHANGED frames
  /\ UNCHANGED <<setupVars, userInput, isAiResponding, aiResponse, lastAiResponse,
                 isLoading, error, recog, sx, synth, speaking,
                 resumeTimers, restartTimers>>

\* runPoseDetection after await loadPoseNet(): null stops it, a net starts
\* the first detectPose
PoseNetSettled(loaded, videoReady) ==
  /\ gpc = "loadPoseNet"
  /\ net' = IF loaded THEN "net" ELSE "null"
  /\ IF net' # "null"
     THEN /\ DetectPoseEnter(videoReady)
          /\ UNCHANGED consoleErrors
     ELSE /\ consoleErrors' = consoleErrors \cup {PoseNetFailed}
          /\ gpc' = "halted"
          /\ UNCHANGED isAiResponding
  /\ lastFetch' = NoFetch
  /\ classified' = NoClassification
  /\ UNCHANGED frames
  /\ UNCHANGED <<classifierVars, voiceVars, speechSupported, variant, userInput, aiResponse,
                 lastAiResponse, isLoading, error, recog, sx, synth, speaking,
                 resumeTimers, restartTimers>>

\* the requestAnimationFrame callback: () => detectPose(net)
AnimationFrame(videoReady) ==
  /\ gpc = "raf"
  /\ frames > 0
  /\ frames' = frames - 1
  /\ DetectPoseEnter(videoReady)
  /\ lastFetch' = NoFetch
  /\ classified' = NoClassification
  /\ UNCHANGED <<setupVars, userInput, aiResponse, lastAiResponse, isLoading, error,
                 recog, sx, synth, speaking, resumeTimers,
                 restartTimers>>

\* detectPose after await net.estimateSinglePose(...), up to its next await
PoseEstimated(estimated, ctx, estimatedPose) ==
  /\ gpc = "awaitPose"
  /\ IF ~estimated \/ ~ctx \/ NoClearPose(estimatedPose)
     THEN /\ gpc' = "halted"
          /\ UNCHANGED <<userInput, isLoading, error>>
     ELSE /\ userInput' = GesturePrompt(estimatedPose)
          /\ IF GesturePrompt(estimatedPose) = <<>> \/ closureIsAiResponding
             THEN /\ gpc' = IF GesturePrompt(estimatedPose) = <<>> THEN "raf" ELSE "halted"
                  /\ UNCHANGED <<isLoading, error>>
             ELSE /\ gpc' = "awaitFetch"
                  /\ IF variant = "tsx"
                     THEN UNCHANGED <<isLoading, error>>
                     ELSE /\ isLoading' = TRUE
                          /\ error' = "null"
  /\ frames' = IF estimated /\ ctx /\ ~NoClearPose(estimatedPose)
                   /\ GesturePrompt(estimatedPose) = <<>>
               THEN requestAnimationFrame(frames)
               ELSE frames
  /\ lastFetch' = NoFetch
  /\ classified' = IF ~estimated THEN NoClassification
                   ELSE IF ~ctx THEN [NoClassification EXCEPT !.returnedAt = "noContext"]
                   ELSE IF NoClearPose(estimatedPose)
                     THEN [NoClassification EXCEPT !.returnedAt = "noClearPose"]
                   ELSE [handRaised |-> isHandRaised(estimatedPose),
                         headTilted |-> isHeadTilted(estimatedPose),
                         classified |-> TRUE, returnedAt |-> "none"]
  /\ UNCHANGED <<setupVars, isAiResponding, aiResponse, lastAiResponse,
                 recog, sx, synth, speaking, resumeTimers, restartTimers>>

\* detectPose after await fetchAIResponse(userInput), up to await speakText
GestureFetchSettled(r) ==
  /\ gpc = "awaitFetch"
  /\ LET res == fetchAIResponse(variant, r)
     IN /\ lastFetch' = [status |-> r.status, outcome |-> res.outcome, error |-> res.error]
        /\ IF variant = "tsx"
           THEN UNCHANGED <<isLoading, error>>
           ELSE /\ isLoading' = FALSE
                /\ error' = IF res.error = "null" THEN error ELSE res.error
        /\ IF res.outcome = "resolved"
           THEN /\ aiResponse' = res.text
                /\ synth' = Append(synth, speakText(res.text, voiceHint(variant, "en"), Gesture))
                /\ gpc' = "awaitSpeak"
                /\ UNCHANGED <<isAiResponding, frames>>
           ELSE \* catch, finally where there is one, requestAnimationFrame
                /\ isAiResponding' = (isAiResponding /\ ~hasFinally(variant))
                /\ gpc' = "raf"
                /\ frames' = requestAnimationFrame(frames)
                /\ UNCHANGED <<aiResponse, synth>>
  /\ userInput' = <<>>
  /\ classified' = NoClassification
  /\ UNCHANGED <<setupVars, lastAiResponse, recog, sx, speaking,
                 resumeTimers, restartTimers>>

\* what follows `await speakText(...)` in the caller that owns the utterance:
\* detectPose releases the lock where it has a finally and requests the next
\* frame; handleDetectedSpeech returns
AfterSpeak(owner) ==
  IF owner = Gesture
  THEN /\ isAiResponding' = (isAiResponding /\ ~hasFinally(variant))
       /\ gpc' = "raf"
       /\ frames' = requestAnimationFrame(frames)
       /\ UNCHANGED sx
  ELSE /\ sx' = [sx EXCEPT ![owner] = IdleSlot]
       /\ UNCHANGED <<gpc, isAiResponding, frames>>

\* the caller whose promise can no longer be resolved is never resumed
NeverResumed(owner) ==
  IF owner = Gesture
  THEN /\ gpc' = "halted"
       /\ UNCHANGED <<sx, isAiResponding, frames>>
  ELSE /\ sx' = [sx EXCEPT ![owner] = IdleSlot]
       /\ UNCHANGED <<gpc, isAiResponding, frames>>

\* the synthesizer starts the head utterance; the "start" listener of
\* listenForSpeech / useSpeechRecognition aborts the recognizer
UtteranceStart ==
  /\ synth # <<>>
  /\ ~speaking
  /\ speaking' = TRUE
  /\ recog' = IF recog = "listening" THEN "stopped" ELSE recog
  /\ IF Head(synth).onstart = "resolve"
     THEN AfterSpeak(Head(synth).owner)
     ELSE UNCHANGED <<gpc, isAiResponding, sx, frames>>
  /\ lastFetch' = NoFetch
  /\ classified' = NoClassification
  /\ UNCHANGED <<setupVars, userInput, aiResponse, lastAiResponse, isLoading, error,
                 synth, resumeTimers, restartTimers>>

\* the head utterance ends: its onend runs, the caller awaiting it goes on,
\* and the "end" listener sets the timer that restarts the recognizer
UtteranceEnd ==
  /\ synth # <<>>
  /\ speaking
  /\ recog # "none" => resumeTimers < MaxTimers
  /\ speaking' = FALSE
  /\ synth' = Tail(synth)
  /\ resumeTimers' = IF recog # "none" THEN resumeTimers + 1 ELSE resumeTimers
  /\ IF Head(synth).onend = "resolve"
     THEN AfterSpeak(Head(synth).owner)
     ELSE UNCHANGED <<gpc, isAiResponding, sx, frames>>
  /\ lastFetch' = NoFetch
  /\ classified' = NoClassification
  /\ UNCHANGED <<setupVars, userInput, aiResponse, lastAiResponse, isLoading, error,
                 recog, restartTimers>>

\* the head utterance fails (its "error" event): neither onend nor the "end"
\* listener runs
UtteranceError ==
  /\ synth # <<>>
  /\ speaking
  /\ speaking' = FALSE
  /\ synth' = Tail(synth)
  /\ IF Head(synth).onend = "resolve"
     THEN NeverResumed(Head(synth).owner)
     ELSE UNCHANGED <<gpc, isAiResponding, sx, frames>>
  /\ lastFetch' = NoFetch
  /\ classified' = NoClassification
  /\ UNCHANGED <<setupVars, userInput, aiResponse, lastAiResponse, isLoading, error,
                 recog, resumeTimers, restartTimers>>

\* ------------------------------------------------------------- speech input
FreeSlots == {i \in Slots : sx[i].pc = "idle"}

\* outcomes of the detectLanguage request: a language code, an empty content,
\* an empty `choices`, a body without `choices`, a transport failure
LangOutcomes == {"code", "emptyContent", "emptyChoices", "noChoices", "networkError"}

\* detectLanguage(text): the code, or "en"; "throws" where the request or the
\* read of data.choices[0] throws and nothing catches it
detectLanguage(v, outcome) ==
  IF outcome = "code" THEN "es"
  ELSE IF outcome \in {"emptyContent", "emptyChoices"} THEN "en"
  ELSE IF v = "hook" THEN "en"
  ELSE "throws"

\* the comparison recognition.onresult makes before it answers
isOwnEcho(spokenText, last) == toLowerCase(spokenText) = toLowerCase(last)

\* the transcript repeats, up to case, the reply handed to speakText last,
\* and the synthesizer has finished with every utterance it was given
RepeatsReply(raw) == synth = <<>> /\ toLowerCase(trim(raw)) = toLowerCase(aiResponse)

\* recognition.onresult up to await detectLanguage(spokenText)
RecognitionResult(raw) ==
  /\ recog = "listening"
  /\ FreeSlots # {}
  /\ IF closureIsAiResponding
     THEN UNCHANGED <<isAiResponding, sx>>
     ELSE /\ isAiResponding' = TRUE
          /\ LET i == CHOOSE k \in FreeSlots : \A j \in FreeSlots : k <= j
             IN sx' = [sx EXCEPT ![i] = [pc |-> "awaitLang", raw |-> raw, text |-> trim(raw),
                                         lang |-> "en", echo |-> RepeatsReply(raw)]]
  /\ lastFetch' = NoFetch
  /\ classified' = NoClassification
  /\ UNCHANGED frames
  /\ UNCHANGED <<setupVars, gpc, userInput, aiResponse, lastAiResponse, isLoading, error,
                 recog, synth, speaking, resumeTimers, restartTimers>>

\* recognition.onresult after await detectLanguage: the echo check, then
\* handleDetectedSpeech up to await fetchAIResponse(spokenText)
LanguageDetected(i, outcome) ==
  /\ sx[i].pc = "awaitLang"
  /\ LET language == detectLanguage(variant, outcome)
     IN IF language = "throws" \/ isOwnEcho(sx[i].text, lastAiResponse)
        THEN /\ sx' = [sx EXCEPT ![i] = IdleSlot]
             /\ UNCHANGED <<isLoading, error>>
        ELSE /\ sx' = [sx EXCEPT ![i].pc = "awaitFetch", ![i].lang = language,
                                  ![i].echo = FALSE]
             /\ isLoading' = TRUE
             /\ error' = "null"
  /\ lastFetch' = NoFetch
  /\ classified' = NoClassification
  /\ UNCHANGED frames
  /\ UNCHANGED <<setupVars, gpc, userInput, isAiResponding, aiResponse, lastAiResponse,
                 recog, synth, speaking, resumeTimers, restartTimers>>

\* handleDetectedSpeech records the reply as lastAiResponse in
\* useSpeechRecognition only
remembersReply(v) == v = "hook"

\* handleDetectedSpeech after await fetchAIResponse, up to await speakText
SpeechFetchSettled(i, r) ==
  /\ sx[i].pc = "awaitFetch"
  /\ LET res == fetchAIResponse(variant, r)
     IN /\ lastFetch' = [status |-> r.status, outcome |-> res.outcome, error |-> res.error]
        /\ isLoading' = FALSE
        /\ error' = IF res.error = "null" THEN error ELSE res.error
        /\ IF res.outcome = "resolved"
           THEN /\ aiResponse' = res.text
                /\ lastAiResponse' = IF remembersReply(variant) THEN res.text
                                     ELSE lastAiResponse
                /\ synth' = Append(synth, speakText(res.text, voiceHint(variant, sx[i].lang), i))
                /\ sx' = [sx EXCEPT ![i] = [IdleSlot EXCEPT !.pc = "awaitSpeak"]]
           ELSE /\ sx' = [sx EXCEPT ![i] = IdleSlot]
                /\ UNCHANGED <<aiResponse, lastAiResponse, synth>>
  /\ classified' = NoClassification
  /\ UNCHANGED frames
  /\ UNCHANGED <<setupVars, gpc, userInput, isAiResponding, recog, speaking,
                 resumeTimers, restartTimers>>

\* recognition.onerror; the recognizer has stopped when it runs
RecognitionError(noSpeech) ==
  /\ recog = "listening"
  /\ recog' = "stopped"
  /\ IF noSpeech /\ variant = "hook"
     THEN /\ restartTimers < MaxTimers
          /\ restartTimers' = restartTimers + 1
     ELSE UNCHANGED restartTimers
  /\ lastFetch' = NoFetch
  /\ classified' = NoClassification
  /\ UNCHANGED frames
  /\ UNCHANGED <<setupVars, gpc, userInput, isAiResponding, aiResponse, lastAiResponse,
                 isLoading, error, sx, synth, speaking, resumeTimers>>

\* the timer of the "end" listener fires: recognition.start()
ResumeTimerFires ==
  /\ resumeTimers > 0
  /\ resumeTimers' = resumeTimers - 1
  /\ recog' = "listening"
  /\ lastFetch' = NoFetch
  /\ classified' = NoClassification
  /\ UNCHANGED frames
  /\ UNCHANGED <<setupVars, gpc, userInput, isAiResponding, aiResponse, lastAiResponse,
                 isLoading, error, sx, synth, speaking, restartTimers>>

\* the timer of the no-speech branch of onerror fires: recognition.start()
RestartTimerFires ==
  /\ restartTimers > 0
  /\ restartTimers' = restartTimers - 1
  /\ recog' = "listening"
  /\ lastFetch' = NoFetch
  /\ classified' = NoClassification
  /\ UNCHANGED frames
  /\ UNCHANGED <<setupVars, gpc, userInput, isAiResponding, aiResponse, lastAiResponse,
                 isLoading, error, sx, synth, speaking, resumeTimers>>

\* ------------------------------------------------------------ classifiers
\* everything the dialogue loop owns
loopVars ==
  <<variant, gpc, userInput, isAiResponding, aiResponse, lastAiResponse, isLoading,
    error, recog, sx, synth, speaking, resumeTimers, restartTimers,
    lastFetch, frames, speechSupported, net, consoleErrors, classified>>

\* a call of isHandRaised on the pose at hand
CallIsHandRaised ==
  /\ inputPose # NoPose
  /\ handRaised = {}
  /\ handRaised' = {isHandRaised(inputPose)}
  /\ UNCHANGED <<loopVars, voiceVars, inputPose, headTilted, hands, fistClosed,
                 handGrabs, fingerTips, knuckles>>

\* a call of isHeadTilted on the pose at hand
CallIsHeadTilted ==
  /\ inputPose # NoPose
  /\ headTilted = {}
  /\ headTilted' = {isHeadTilted(inputPose)}
  /\ UNCHANGED <<loopVars, voiceVars, inputPose, handRaised, hands, fistClosed,
                 handGrabs, fingerTips, knuckles>>

\* the onHandGrab prop of HandDetection: App hands it handleHandGrab
onHandGrab == TRUE

\* the onHandGrab calls of a gotHands callback that called it for any hand
onHandGrabCallsAnyHand(results, fistStatus) ==
  IF results # <<>> /\ onHandGrab THEN <<results>> ELSE <<>>

\* the onHandGrab calls of gotHands(results): if (fistStatus && onHandGrab)
\* onHandGrab(results)
onHandGrabCalls(results, fistStatus) ==
  IF fistStatus /\ onHandGrab THEN <<results>> ELSE <<>>

\* let fistStatus of gotHands(results): false, or isFistClosed(results[0])
\* .result if there is a hand
fistStatus(results) ==
  IF results # <<>> THEN isFistClosed(results[1]) ELSE FALSE

\* gotHands(results) of HandDetection, the call of isFistClosed included:
\* isFistClosed stores the fingertips and knuckles it filtered in the two
\* globals before it compares them, unless reading the hand threw
gotHands(results) ==
  /\ inputPose = NoPose
  /\ hands' = results
  /\ IF results # <<>> /\ results[1].readable
     THEN /\ fingerTips' = filterByName(results[1], "tip")
          /\ knuckles' = filterByName(results[1], "mcp")
     ELSE UNCHANGED <<fingerTips, knuckles>>
  /\ fistClosed' = fistStatus(results)
  /\ handGrabs' = onHandGrabCalls(results, fistStatus(results))
  /\ UNCHANGED <<loopVars, voiceVars, inputPose, handRaised, headTilted>>

\* the classifiers on their own: a pose handed to isHandRaised and
\* isHeadTilted, or the HandDetection component receiving hands
ClassifierInit ==
  /\ variant = "jsx"
  /\ gpc = "unmounted"
  /\ userInput = <<>>
  /\ isAiResponding = FALSE
  /\ aiResponse = <<>>
  /\ lastAiResponse = <<>>
  /\ isLoading = FALSE
  /\ error = "null"
  /\ recog = "none"
  /\ sx = [i \in Slots |-> IdleSlot]
  /\ synth = <<>>
  /\ speaking = FALSE
  /\ resumeTimers = 0
  /\ restartTimers = 0
  /\ lastFetch = NoFetch
  /\ frames = 0
  /\ speechSupported = FALSE
  /\ net = "pending"
  /\ consoleErrors = {}
  /\ classified = NoClassification
  /\ inputPose \in ClassifierPoses \cup {NoPose}
  /\ handRaised = {}
  /\ headTilted = {}
  /\ hands = <<>>
  /\ fistClosed = FALSE
  /\ handGrabs = <<>>
  /\ fingerTips = <<>>
  /\ knuckles = <<>>
  /\ voices = <<>>
  /\ languageArg = Omitted
  /\ utteranceVoice = {}

ClassifierNext ==
  \/ CallIsHandRaised
  \/ CallIsHeadTilted
  \/ \E results \in HandResults : gotHands(results)

ClassifierSpec == ClassifierInit /\ [][ClassifierNext]_vars

\* --------------------------------------------------------- voice selection
\* speakText(text, language) of useSpeechSynthesis up to utterance.voice =
\* selectedVoice
CallSpeakText ==
  /\ utteranceVoice = {}
  /\ utteranceVoice' = {selectedVoice(voices, languageOrDefault(languageArg))}
  /\ UNCHANGED <<loopVars, classifierVars, voices, languageArg>>

\* a call of speakText, for every voice list and every language argument
SynthesisInit ==
  /\ variant = "hook"
  /\ gpc = "unmounted"
  /\ userInput = <<>>
  /\ isAiResponding = FALSE
  /\ aiResponse = <<>>
  /\ lastAiResponse = <<>>
  /\ isLoading = FALSE
  /\ error = "null"
  /\ recog = "none"
  /\ sx = [i \in Slots |-> IdleSlot]
  /\ synth = <<>>
  /\ speaking = FALSE
  /\ resumeTimers = 0
  /\ restartTimers = 0
  /\ lastFetch = NoFetch
  /\ frames = 0
  /\ speechSupported = FALSE
  /\ net = "pending"
  /\ consoleErrors = {}
  /\ classified = NoClassification
  /\ inputPose = NoPose
  /\ handRaised = {}
  /\ headTilted = {}
  /\ hands = <<>>
  /\ fistClosed = FALSE
  /\ handGrabs = <<>>
  /\ fingerTips = <<>>
  /\ knuckles = <<>>
  /\ voices \in VoiceLists
  /\ languageArg \in LanguageArgs
  /\ utteranceVoice = {}

SynthesisNext == CallSpeakText

SynthesisSpec == SynthesisInit /\ [][SynthesisNext]_vars

\* ------------------------------------------------------------ specification
Next ==
  \/ Mount
  \/ \E granted \in BOOLEAN : CameraSettled(granted)
  \/ \E loaded \in BOOLEAN, videoReady \in BOOLEAN : PoseNetSettled(loaded, videoReady)
  \/ \E videoReady \in BOOLEAN : AnimationFrame(videoReady)
  \/ \E estimated \in BOOLEAN, ctx \in BOOLEAN, estimatedPose \in Poses :
       PoseEstimated(estimated, ctx, estimatedPose)
  \/ \E r \in Responses : GestureFetchSettled(r)
  \/ UtteranceStart
  \/ UtteranceEnd
  \/ UtteranceError
  \/ \E raw \in RawTranscripts : RecognitionResult(raw)
  \/ \E i \in Slots, outcome \in LangOutcomes : LanguageDetected(i, outcome)
  \/ \E i \in Slots, r \in Responses : SpeechFetchSettled(i, r)
  \/ \E noSpeech \in BOOLEAN : RecognitionError(noSpeech)
  \/ ResumeTimerFires
  \/ RestartTimerFires

Spec == Init /\ [][Next]_vars

\* Every pending await settles, every queued utterance starts and then ends or
\* fails, every timer and animation frame fires: the browser's event loop runs
\* each callback that is due.
Fairness ==
  /\ WF_vars(\E granted \in BOOLEAN : CameraSettled(granted))
  /\ WF_vars(\E loaded \in BOOLEAN, videoReady \in BOOLEAN : PoseNetSettled(loaded, videoReady))
  /\ WF_vars(\E videoReady \in BOOLEAN : AnimationFrame(videoReady))
  /\ WF_vars(\E estimated \in BOOLEAN, ctx \in BOOLEAN, estimatedPose \in Poses :
               PoseEstimated(estimated, ctx, estimatedPose))
  /\ WF_vars(\E r \in Responses : GestureFetchSettled(r))
  /\ WF_vars(UtteranceStart)
  /\ WF_vars(UtteranceEnd \/ UtteranceError)
  /\ WF_vars(\E i \in Slots, outcome \in LangOutcomes : LanguageDetected(i, outcome))
  /\ WF_vars(\E i \in Slots, r \in Responses : SpeechFetchSettled(i, r))
  /\ WF_vars(ResumeTimerFires)
  /\ WF_vars(RestartTimerFires)

FairSpec == Spec /\ Fairness

\* ------------------------------------------------------------------ claims
\* an exchange is in flight from the call of fetchAIResponse to the end of
\* the await of speakText
InExchange(pc) == pc \in {"awaitFetch", "awaitSpeak"}
InFlight ==
  (IF InExchange(gpc) THEN {Gesture} ELSE {}) \cup {i \in Slots : InExchange(sx[i].pc)}

\* C1: at most one exchange (prompt sent, response, speech) is in flight at
\* any time, whichever of detectPose and recognition.onresult started it.
C1_AtMostOneExchange == Cardinality(InFlight) <= 1

\* a caller is suspended inside detectPose or recognition.onresult
Suspended ==
  \/ gpc \in {"awaitPose", "awaitFetch", "awaitSpeak"}
  \/ \E i \in Slots : sx[i].pc # "idle"

\* the step is the terminal event of the gesture exchange: its chat call
\* was rejected, or its utterance, being spoken, ended
GestureTerminalStep ==
  \/ gpc = "awaitFetch" /\ lastFetch'.outcome = "rejected"
  \/ /\ gpc = "awaitSpeak"
     /\ speaking
     /\ Head(synth).owner = Gesture
     /\ synth' = Tail(synth)

\* C2: the busy flag is true at every suspension point of detectPose and of
\* recognition.onresult (it was set before the first await), and a step
\* clears it only as the terminal event of the exchange that holds it, after
\* which no call or utterance of that exchange is outstanding.
C2_LockHeldUntilTerminal ==
  /\ [](Suspended => isAiResponding)
  /\ [][(isAiResponding /\ ~isAiResponding')
          => (GestureTerminalStep /\ ~InExchange(gpc'))]_vars

\* an exchange ran to its terminal event and the flag was released
C2_Witness ==
  /\ variant = "tsx"
  /\ gpc = "raf"
  /\ ~isAiResponding
  /\ aiResponse # <<>>

\* the step ends an exchange: the caller leaves the exchange, by a failed
\* chat call, by the end of its utterance or by the failure of the utterance
ExchangeEnds ==
  \/ InExchange(gpc) /\ ~InExchange(gpc')
  \/ \E i \in Slots : InExchange(sx[i].pc) /\ ~InExchange(sx'[i].pc)

\* C3: after an exchange completes, by success or by failure, the busy flag
\* is false again.
C3_ReleasedAfterExchange == [][ExchangeEnds => ~isAiResponding']_vars

\* C4: the busy flag is never stuck true: whenever it is true it is
\* eventually false again.
C4_NeverStuck == isAiResponding ~> ~isAiResponding

\* the step settles a chat call that was answered with a non-success status
SettlesNonSuccess ==
  /\ \/ gpc = "awaitFetch" /\ gpc' # "awaitFetch"
     \/ \E i \in Slots : sx[i].pc = "awaitFetch" /\ sx'[i].pc # "awaitFetch"
  /\ lastFetch'.status # 0
  /\ lastFetch'.status \notin 200..299

\* C5: when the chat endpoint answers with a non-success status the
\* controller goes back to idle: the busy flag is cleared, the hook's error
\* is set, and nothing is handed to speakText.
C5_NonSuccessGoesIdle ==
  [][SettlesNonSuccess
       => /\ ~isAiResponding'
          /\ synth' = synth
          /\ (variant # "tsx" => error' # "null")]_vars

\* C6: a chat call that met a transport failure or a non-success status is
\* rejected, never resolved with a string.
C6_FailureRejects ==
  (lastFetch.outcome # "none" /\ lastFetch.status \notin 200..299)
    => lastFetch.outcome = "rejected"

\* C7: a transcript that, when it is delivered to recognition.onresult,
\* equals case-insensitively the reply handed to speakText last (and spoken
\* since) starts no exchange.
C7_NoExchangeForOwnEcho ==
  [][\A i \in Slots :
       (sx[i].pc = "awaitLang" /\ sx'[i].pc = "awaitFetch") => ~sx[i].echo]_vars

\* C8: a prompt is sent to fetchAIResponse only for a gesture other than
\* none or for a transcript that is not empty once trimmed.
C8_OnlyQualifyingTriggers ==
  [][/\ (gpc = "awaitPose" /\ gpc' = "awaitFetch")
          => userInput' \in {HandPrompt, HeadPrompt}
     /\ \A i \in Slots :
          (sx[i].pc = "awaitLang" /\ sx'[i].pc = "awaitFetch")
            => sx[i].text # <<>>]_vars

\* C9: the recognizer is never listening while the synthesizer is speaking.
C9_MicSpeakerExclusion == ~(recog = "listening" /\ speaking)

\* C10: as long as an utterance is queued or being spoken, the caller that
\* awaits speakText for it has not gone on: detectPose still holds the busy
\* flag and has requested no frame, handleDetectedSpeech has not returned.
C10_ResumesOnlyOnEnd ==
  \A k \in 1..Len(synth) :
    /\ isAiResponding
    /\ IF synth[k].owner = Gesture
       THEN gpc = "awaitSpeak"
       ELSE sx[synth[k].owner].pc = "awaitSpeak"

\* detectPose waits, lock held, while its utterance is being spoken
C10_Witness ==
  /\ variant = "tsx"
  /\ speaking
  /\ Head(synth).owner = Gesture
  /\ gpc = "awaitSpeak"

\* the step is the "end" event of an utterance spoken for an exchange that a
\* speech result started: the utterance leaves the queue and the "end"
\* listener has set its timer (an utterance that fails sets none)
SpeechUtteranceEnds ==
  /\ synth # <<>>
  /\ speaking
  /\ Head(synth).owner # Gesture
  /\ synth' = Tail(synth)
  /\ resumeTimers' = resumeTimers + 1

\* C11: when the utterance of an exchange started from a speech result ends,
\* the busy flag becomes false and the restart of the recognizer is scheduled.
C11_SpeechEndReleasesFlag == [][SpeechUtteranceEnds => ~isAiResponding']_vars

\* a wrist of the pose is present, with the nose, and strictly above it
WristAboveNose(p, wrist) == wrist # Absent /\ p.nose # Absent /\ wrist < p.nose

\* C12: isHandRaised(pose) is true iff at least one wrist is present with
\* its y strictly less than the nose's y; a missing keypoint only makes the
\* comparison that needs it false.
C12_HandRaisedIffAnyWristAbove ==
  handRaised # {}
    => handRaised = {WristAboveNose(inputPose, inputPose.leftWrist)
                       \/ WristAboveNose(inputPose, inputPose.rightWrist)}

\* C13: isHeadTilted(pose) is true iff both ears are present and their y
\* differ, one way or the other, by more than 20; exactly 20 is no tilt.
C13_HeadTiltedIffMoreThanThreshold ==
  headTilted # {}
    => headTilted =
         {/\ inputPose.leftEar # Absent
          /\ inputPose.rightEar # Absent
          /\ \/ inputPose.leftEar - inputPose.rightEar > 20
             \/ inputPose.rightEar - inputPose.leftEar > 20}

\* isHeadTilted was called on ears exactly 20 apart and returned false
C13_Witness ==
  /\ inputPose.leftEar = 141
  /\ inputPose.rightEar = 121
  /\ headTilted = {FALSE}

\* the positions in the hand of the keypoints whose name contains the word
Named(hand, word) ==
  {i \in 1..Len(hand.keypoints) : includes(hand.keypoints[i].name, word)}

\* the sum of the y of the keypoints at the positions
RECURSIVE TotalY(_, _)
TotalY(hand, positions) ==
  IF positions = {} THEN 0
  ELSE LET i == CHOOSE k \in positions : TRUE
       IN hand.keypoints[i].y + TotalY(hand, positions \ {i})

\* five fingertips, five knuckles, and the mean y of the fingertips strictly
\* greater than the mean y of the knuckles (of five values each, so the sums
\* compare as the means do)
FiveAndFiveTipsBelow(hand) ==
  /\ hand.readable
  /\ Cardinality(Named(hand, "tip")) = 5
  /\ Cardinality(Named(hand, "mcp")) = 5
  /\ TotalY(hand, Named(hand, "tip")) > TotalY(hand, Named(hand, "mcp"))

\* C14: isFistClosed reports closed iff the hand has exactly 5 keypoints
\* named tip, exactly 5 named mcp, and the mean y of the tips is strictly
\* greater than that of the knuckles; any other count, or a hand that cannot
\* be read, is reported not closed.
C14_FistClosedIffFiveAndFive ==
  hands # <<>> => (fistClosed = FiveAndFiveTipsBelow(hands[1]))

\* gotHands received a hand with five fingertips below its four knuckles and
\* reported no fist
C14_Witness ==
  /\ hands = <<HandOf(5, 4, 110)>>
  /\ ~fistClosed

\* C16: classifying changes nothing but the label returned: the pose or hand
\* classified and the globals window.fingerTips and window.knuckles are as
\* they were before the call.
C16_ClassifiersHaveNoSideEffects ==
  [][/\ inputPose' = inputPose
     /\ fingerTips' = fingerTips
     /\ knuckles' = knuckles]_vars

\* the step is a detection tick that classified its pose
TickClassifies == gpc = "awaitPose" /\ classified'.classified

\* the step is a detection tick that sends a prompt to fetchAIResponse
TickSendsPrompt == gpc = "awaitPose" /\ gpc' = "awaitFetch"

\* C15: a tick whose pose has the hand raised sends the hand-raised prompt,
\* whether or not the head is tilted as well, and the prompt a tick sends is
\* one prompt: that of the first rule that matched.
C15_HandRaisedCheckedFirst ==
  [][TickClassifies =>
       /\ classified'.handRaised => (TickSendsPrompt /\ userInput' = HandPrompt)
       /\ TickSendsPrompt => userInput' \in {HandPrompt, HeadPrompt}]_vars

\* a tick found the hand raised and the head tilted and sent the hand prompt
C15_Witness ==
  /\ classified.handRaised
  /\ classified.headTilted
  /\ gpc = "awaitFetch"
  /\ userInput = HandPrompt

\* the step is a speech handler calling fetchAIResponse(spokenText)
SpeechSendsPrompt(i) == sx[i].pc = "awaitLang" /\ sx'[i].pc = "awaitFetch"

\* the prompt a tick sends is the fixed prompt of its trigger
GesturePromptFixed ==
  TickSendsPrompt =>
    /\ classified'.handRaised => userInput' = HandPrompt
    /\ (~classified'.handRaised /\ classified'.headTilted) => userInput' = HeadPrompt
    /\ classified'.handRaised \/ classified'.headTilted

\* t is r without the spaces r begins and ends with
IsTrimmed(t, r) ==
  /\ t # <<>> => (t[1] # " " /\ t[Len(t)] # " ")
  /\ \E a \in 0..Len(r), b \in 0..Len(r) :
       /\ a + Len(t) + b = Len(r)
       /\ \A k \in 1..a : r[k] = " "
       /\ \A k \in 1..b : r[Len(r) - k + 1] = " "
       /\ SubSeq(r, a + 1, a + Len(t)) = t

\* C17 as stated: HandRaised sends the hand prompt, HeadTilted the head
\* prompt, and a speech trigger sends the transcript verbatim.
C17_TranscriptSentVerbatim ==
  [][/\ GesturePromptFixed
     /\ \A i \in Slots : SpeechSendsPrompt(i) => sx'[i].text = sx'[i].raw]_vars

\* C17, amended: HandRaised sends the hand prompt, HeadTilted the head
\* prompt, and a speech trigger sends the transcript without the white space
\* it begins and ends with.
C17_TranscriptSentTrimmed ==
  [][/\ GesturePromptFixed
     /\ \A i \in Slots :
          SpeechSendsPrompt(i) => IsTrimmed(sx'[i].text, sx'[i].raw)]_vars

\* a transcript delivered with a leading space was sent without it
C17_Witness ==
  \E i \in Slots :
    /\ sx[i].pc = "awaitFetch"
    /\ sx[i].raw = <<" ", "A">>
    /\ sx[i].text = <<"A">>

\* the step invokes detectPose: the callback of a requested animation frame,
\* or runPoseDetection with the net it loaded
DetectPoseInvoked == gpc = "raf" \/ (gpc = "loadPoseNet" /\ net' = "net")

\* C18: a tick that finds the frame not ready is retried: an invocation of
\* detectPose either goes on to estimate the pose or has requested another
\* animation frame when it returns.
C18_NotReadyTickRetried ==
  [][DetectPoseInvoked => gpc' \in {"awaitPose", "raf"}]_vars

\* C19: once loadPoseNet has returned null the failure is logged, detectPose
\* is never invoked and no tick is pending, and the load is not tried again.
C19_LoadFailureStopsLoop ==
  /\ [](net = "null" => (gpc = "halted" /\ PoseNetFailed \in consoleErrors))
  /\ [][net = "null" => net' = "null"]_vars

\* loadPoseNet returned null while the recognizer of the same component
\* listens on
C19_Witness ==
  /\ net = "null"
  /\ gpc = "halted"
  /\ recog = "listening"

\* the effect of the first render has run
Mounted == gpc # "unmounted"

\* C20: without a speech-recognition API no recognizer exists, no timer of
\* its listeners is ever pending and no onresult handler ever runs, and the
\* effect still starts runPoseDetection.
C20_GestureOnlyWithoutSpeechAPI ==
  /\ []((Mounted /\ ~speechSupported)
          => /\ recog = "none"
             /\ resumeTimers = 0
             /\ restartTimers = 0
             /\ \A i \in Slots : sx[i].pc = "idle")
  /\ [][(~Mounted /\ Mounted' /\ ~speechSupported /\ hasGestureLoop(variant))
          => gpc' = "setupCamera"]_vars

\* without the API, the component that also listens speaks the reply to a
\* gesture
C20_Witness ==
  /\ variant = "jsx"
  /\ ~speechSupported
  /\ gpc = "awaitSpeak"
  /\ speaking

\* the language tag begins with the hint, character for character
BeginsWith(tag, hint) ==
  \A k \in 1..Len(hint) : k <= Len(tag) /\ tag[k] = hint[k]

\* the positions of the listed voices whose lang begins with the hint of the
\* call, "en" when the call gives none
MatchingVoices ==
  LET hint == IF languageArg.given THEN languageArg.value ELSE <<"e", "n">>
  IN {k \in 1..Len(voices) : BeginsWith(voices[k], hint)}

\* C21: speakText gives the utterance the first listed voice whose lang
\* starts with the language hint ("en" when omitted) when there is one, and
\* the first voice of the list otherwise (none when the list is empty).
C21_VoiceMatchesHint ==
  utteranceVoice # {}
    => utteranceVoice =
         {IF MatchingVoices # {}
          THEN CHOOSE k \in MatchingVoices : \A j \in MatchingVoices : k <= j
          ELSE IF voices # <<>> THEN 1 ELSE 0}

\* asked for "es", speakText passed over the English voice listed first
C21_Witness ==
  /\ voices = <<LangEnUS, LangEsES>>
  /\ languageArg = [given |-> TRUE, value |-> LangEs]
  /\ utteranceVoice = {2}

\* the request failed: no answer, an answer that is not JSON, a status that
\* is not a success, or a body without `choices`
FailedResponse(r) ==
  r.kind \in {"networkError", "notJson", "noChoices"} \/ r.status \notin 200..299

\* whatever the endpoint does, useOpenAI.fetchAIResponse resolves with a
\* text that is not empty: the fallback and an error message when the
\* request failed, and no error message otherwise
HookAlwaysResolves ==
  \A r \in Responses :
    LET res == hookFetchAIResponse(r)
    IN /\ res.outcome = "resolved"
       /\ res.text # <<>>
       /\ FailedResponse(r) => (res.text = Fallback /\ res.error # "null")
       /\ ~FailedResponse(r) => res.error = "null"

\* a caller awaits a fetchAIResponse call of the useOpenAI hook
HookCallPending ==
  /\ variant # "tsx"
  /\ gpc = "awaitFetch" \/ \E i \in Slots : sx[i].pc = "awaitFetch"

\* the step settles a fetchAIResponse call of the useOpenAI hook
HookCallSettles == variant # "tsx" /\ lastFetch'.outcome # "none"

\* C22: useOpenAI.fetchAIResponse never rejects and never resolves with an
\* empty text; a failure gives the fallback and sets error to its message,
\* after a success error is null; isLoading is true as long as a call is
\* pending and false once it has settled.
C22_HookCallContract ==
  /\ [](HookAlwaysResolves)
  /\ [](HookCallPending => isLoading)
  /\ [][HookCallSettles => (error' = lastFetch'.error /\ ~isLoading')]_vars

\* detectPose invocations that have started and not returned
Executing == IF gpc \in {"awaitPose", "awaitFetch", "awaitSpeak"} THEN 1 ELSE 0

\* C23: at most one detectPose invocation is scheduled by
\* requestAnimationFrame or executing, on every path through detectPose.
C23_OneTickAtATime == frames + Executing <= 1

\* the failed exchange of a tick has requested the one next tick
C23_Witness ==
  /\ variant = "tsx"
  /\ lastFetch.outcome = "rejected"
  /\ frames = 1
  /\ gpc = "raf"

\* the step is a tick returning early: no 2D context, or no keypoint with
\* a score of 0.3
TickReturnsEarly ==
  gpc = "awaitPose" /\ classified'.returnedAt \in {"noContext", "noClearPose"}

\* the step is a tick that classified its pose and found no gesture
TickFindsNoGesture ==
  /\ TickClassifies
  /\ ~classified'.handRaised
  /\ ~classified'.headTilted

\* C24: a tick that ends without an exchange, by finding no gesture, no
\* clear pose or no canvas context, has requested a following tick.
C24_LoopKeepsRunning ==
  [][(TickReturnsEarly \/ TickFindsNoGesture) => frames' > 0]_vars

\* the step settles the detectLanguage call of the handler in slot i
LanguageSettles(i) == sx[i].pc = "awaitLang" /\ sx'[i].pc # "awaitLang"

\* C25: language detection never blocks an exchange: however the
\* detectLanguage request came back, a transcript that is not the reply
\* spoken last goes on to handleDetectedSpeech and fetchAIResponse.
C25_DetectionNeverBlocks ==
  [][\A i \in Slots :
       (LanguageSettles(i) /\ ~isOwnEcho(sx[i].text, lastAiResponse))
         => sx'[i].pc = "awaitFetch"]_vars

\* the callback just made came with a first hand that is a closed fist
FirstHandIsFist == hands # <<>> /\ FiveAndFiveTipsBelow(hands[1])

\* C26: after every gotHands(results) callback, onHandGrab has been called
\* once with results if results has a first hand and that hand is a closed
\* fist, and not at all otherwise, and fistClosed is that classification;
\* so a callback with no hand or an open hand puts fistClosed back to false.
C26_GrabIffFirstHandIsFist ==
  /\ [](handGrabs = IF FirstHandIsFist THEN <<hands>> ELSE <<>>)
  /\ [](fistClosed = FirstHandIsFist)
  /\ [][(fistClosed /\ hands' # hands /\ ~FirstHandIsFist') => ~fistClosed']_vars

\* a closed fist came first among two hands and was reported
C26_Witness ==
  /\ Len(hands) > 1
  /\ FirstHandIsFist
  /\ fistClosed
  /\ handGrabs = <<hands>>

====
